---- MODULE Spec2Model ----
(***************************************************************************)
(* A model of the TD3 agent of src/src/td3.rs: network construction        *)
(* (Actor::new, Critic::new, TD3::new), the forward passes, TD3::train,    *)
(* the Serialize / Deserialize implementations of Actor and Critic, and    *)
(* TD3::save.                                                              *)
(*                                                                         *)
(* A tensor is a shape and the flat sequence of its elements; an element   *)
(* is an integer standing for a float.  The tensor engine is modelled by   *)
(* its shape rules: a linear layer applied to an input of the wrong width, *)
(* an elementwise operation on non-broadcastable widths and an index out   *)
(* of range panic.  The engine's own run-time checks on gradients and on   *)
(* element kinds are outside the model: backward(), the in-place copy_ and *)
(* copy_data are taken to succeed.                                         *)
(***************************************************************************)
EXTENDS Integers, Sequences, FiniteSets, TLC

\* ------------------------------------------------------------------ bounds
MaxBatch == 3        \* batch_size ranges over 1..MaxBatch
MaxFreq == 2         \* policy_freq ranges over 1..MaxFreq
MaxCalls == 10       \* completed train calls are capped
MaxGrad == 1         \* an optimizer step moves a parameter by 1..MaxGrad
MaxInit == 1         \* initial parameter values range over 0..MaxInit

\* ------------------------------------------------- constants of the program
InitialTotalIt == 0      \* TD3::new: total_it: 0
DefaultPolicyFreq == 2   \* TD3::new: policy_freq.unwrap_or(2)
F64Bytes == 8            \* mem::size_of::<f64>()
F32Bytes == 4            \* element size of Kind::Float
TauNum == 1              \* tau = 0.005 = TauNum / TauDen
TauDen == 200

Bad == 0 - 1             \* the width of a tensor an operation failed to produce

\* the constructor arguments the model draws from
StateDims == {3, 4}
ActionDims == {1, 2}
ActorShapes == { <<2, 2, 1>>, <<2, 2, 2>>, <<3>> }
QShapes == { <<3>>, <<2, 2, 2>> }
\* the widths of the state and action tensors the replay buffer hands out
SampleStateWidths == {2, 4}
SampleActionWidths == {1, 2}

\* cfg       the arguments TD3::new was given
\* actor, actor_target, critic, critic_target, total_it   the fields of TD3
\* fs        the destination file of save
\* crashed   a panic has ended the process
\* last      the last call: its name, its outcome, where it stopped, its steps
\*           (for train also q1_seen, the q1 branch the actor loss read)
\* arg, ret  the argument and the returned value of the last call
\* calls     the number of train calls that returned
\* changes   the number of those that changed a target network's parameters
VARIABLES cfg, actor, actor_target, critic, critic_target, total_it,
          fs, crashed, last, arg, ret, calls, changes

vars == <<cfg, actor, actor_target, critic, critic_target, total_it,
          fs, crashed, last, arg, ret, calls, changes>>

agent == <<actor, actor_target, critic, critic_target, total_it>>

Min(a, b) == IF a < b THEN a ELSE b

\* ----------------------------------------------------------------- tensors
RECURSIVE Prod(_)
\* shape.iter().fold(1, |sum, val| sum * val): the number of elements
Prod(shape) == IF shape = <<>> THEN 1 ELSE Head(shape) * Prod(Tail(shape))

\* a tensor of the given shape, every element v
Tensor(shape, v) == [shape |-> shape, data |-> [j \in 1..Prod(shape) |-> v]]

\* the bs of a layer that has none
NoTensor == [shape |-> <<>>, data |-> <<>>]

\* every element moved by g
Shift(t, g) == [t EXCEPT !.data = [j \in 1..Len(t.data) |-> t.data[j] + g]]

\* ------------------------------------------------------------ construction
\* nn::linear(vs.root(), in_dim, out_dim, Default::default()): a weight of shape
\* [out_dim, in_dim] and, bias being on by default, a bias of shape [out_dim]
Linear(in_dim, out_dim, v) ==
    [ws |-> Tensor(<<out_dim, in_dim>>, v), bs |-> Tensor(<<out_dim>>, v), has_bs |-> TRUE]

\* the loop `for x in 1..shape.len()` pushing linear(shape[x-1], shape[x])
\* (indices are 1-based here)
LayerChain(shape, v) ==
    [x \in 1..(Len(shape) - 1) |-> Linear(shape[x], shape[x + 1], v)]

\* Actor::new builds `shape` = state_dim, nn_shape..., action_dim, and then
\* loops over nn_shape, the list it was given
ActorNew(state_dim, action_dim, nn_shape, max_action, v) ==
    LET shape == <<state_dim>> \o nn_shape \o <<action_dim>>
    IN  [layers |-> LayerChain(nn_shape, v), max_action |-> max_action]

\* Critic::new: each branch loops over state_dim, q_shape..., action_dim
CriticNew(state_dim, action_dim, q1_shape, q2_shape, v) ==
    [q1_layers |-> LayerChain(<<state_dim>> \o q1_shape \o <<action_dim>>, v),
     q2_layers |-> LayerChain(<<state_dim>> \o q2_shape \o <<action_dim>>, v)]

\* ------------------------------------------------------------ forward pass
\* nn::Linear::forward on an input whose last dimension is w
LinearForward(layer, w) == IF w = layer.ws.shape[2] THEN layer.ws.shape[1] ELSE Bad

\* the layers a forward pass applies, in order: layers[0], then every layer of
\* the slice layers[..1], then layers.last()
ForwardOrder(n) == <<1>> \o [i \in 1..Min(1, n) |-> i] \o <<n>>

\* what follows each application: .relu() after layers[0] and after every
\* layer of the slice, out after layers.last() (tanh scaled by max_action in
\* the actor, nothing in the critic)
ForwardSteps(n, out) ==
    LET order == ForwardOrder(n)
    IN  [k \in 1..Len(order) |->
            [layer |-> order[k], then |-> IF k < Len(order) THEN "relu" ELSE out]]

RECURSIVE RunLayers(_, _, _)
RunLayers(layers, order, w) ==
    IF order = <<>> \/ w = Bad THEN w
    ELSE RunLayers(layers, Tail(order), LinearForward(layers[Head(order)], w))

\* indexing layers[0] of an empty vector panics
StackForward(layers, w) ==
    IF Len(layers) = 0 \/ w = Bad THEN Bad
    ELSE RunLayers(layers, ForwardOrder(Len(layers)), w)

ActorForward(a, w) == StackForward(a.layers, w)

CriticQ1(c, w) == StackForward(c.q1_layers, w)

\* Tensor::cat(&[q1, q2], 1): the widths add
CriticForward(c, w) ==
    LET q1 == StackForward(c.q1_layers, w)
        q2 == StackForward(c.q2_layers, w)
    IN  IF q1 = Bad \/ q2 = Bad THEN Bad ELSE q1 + q2

\* the width of an elementwise operation on widths a and b
Broadcast(a, b) ==
    IF a = Bad \/ b = Bad THEN Bad
    ELSE IF a = b THEN a
    ELSE IF a = 1 THEN b
    ELSE IF b = 1 THEN a
    ELSE Bad

\* Tensor::split(split_size, 1) of a tensor of width w: the widths of the chunks
Split(w, split_size) ==
    IF w = Bad THEN <<>>
    ELSE IF w = 0 THEN <<0>>
    ELSE LET n == (w + split_size - 1) \div split_size
         IN  [i \in 1..n |-> IF i < n THEN split_size ELSE w - (n - 1) * split_size]

\* ------------------------------------------------------------------- train
\* self.total_it % self.policy_freq == 0
DelayedUpdateDue(it, policy_freq) == it % policy_freq = 0

\* the layers of a stack a loss built from its forward pass has gradients for
Used(layers) == { ForwardOrder(Len(layers))[k] : k \in 1..Len(ForwardOrder(Len(layers))) }

\* one optimizer step on the layers of a stack that have a gradient
StepLayers(layers, g) ==
    [i \in 1..Len(layers) |->
        IF i \in Used(layers)
        THEN [layers[i] EXCEPT !.ws = Shift(@, g),
                               !.bs = IF layers[i].has_bs THEN Shift(@, g) ELSE @]
        ELSE layers[i]]

\* The networks whose layers are variables of the store vs: every nn::linear
\* of Actor::new and Critic::new is created under vs.root(), for the online
\* and the target networks alike.
VarStoreNetworks == {"actor", "actor_target", "critic", "critic_target"}

\* nn::Adam::default().build(vs.borrow(), 3e-4): an optimizer holds the
\* trainable variables of the store it is built on, those added to the store
\* after the build included (they are added at the next zero_grad or step)
ActorOptimizerParams == VarStoreNetworks

CriticOptimizerParams == VarStoreNetworks

\* critic_optimizer.step() after critic_loss.backward(): the optimizer holds
\* every variable of the shared store; the ones with a gradient are those of
\* critic.forward
CriticOptimizerStep(c, g) ==
    IF "critic" \in CriticOptimizerParams
    THEN [q1_layers |-> StepLayers(c.q1_layers, g), q2_layers |-> StepLayers(c.q2_layers, g)]
    ELSE c

\* actor_optimizer.step() after actor_loss.backward(): the optimizer holds
\* every variable of the shared store; the ones with a gradient are those of
\* actor.forward and of critic.Q1
ActorOptimizerStepActor(a, g) ==
    IF "actor" \in ActorOptimizerParams
    THEN [a EXCEPT !.layers = StepLayers(a.layers, g)]
    ELSE a

ActorOptimizerStepCritic(c, g) ==
    IF "critic" \in ActorOptimizerParams
    THEN [c EXCEPT !.q1_layers = StepLayers(c.q1_layers, g)]
    ELSE c

\* for (param, target_param) in online.zip(target) { param.ws.copy_(&target_param.ws) }
CopyWs(param_layers, target_layers) ==
    [i \in 1..Len(param_layers) |->
        IF i <= Len(target_layers)
        THEN [param_layers[i] EXCEPT !.ws = target_layers[i].ws]
        ELSE param_layers[i]]

\* the first loop writes into critic.q1_layers, the second into critic.q2_layers
SyncCritic(c, ct) ==
    [q1_layers |-> CopyWs(c.q1_layers, ct.q1_layers),
     q2_layers |-> CopyWs(c.q2_layers, ct.q2_layers)]

\* the third loop writes into actor.layers
SyncActor(a, at) == [a EXCEPT !.layers = CopyWs(a.layers, at.layers)]

\* what the loops leave in the target networks: they are only read
SyncCriticTarget(c, ct) == ct

SyncActorTarget(a, at) == at

\* Where a train call stops: the first step that panics, or "done".
\* b = [size, sw, aw]: batch size and the widths of samples[0..2]
TrainStop(b) ==
    LET ta     == ActorForward(actor_target, b.sw)                 \* line 652
        na     == Broadcast(ta, b.aw)                              \* line 653
        tq     == IF na = Bad THEN Bad
                  ELSE CriticForward(critic_target, b.sw + na)     \* line 658
        tsplit == Split(tq, b.size)                                \* line 659
        minq   == IF Len(tsplit) < 2 THEN Bad
                  ELSE Broadcast(tsplit[1], tsplit[2])             \* line 664
        target == Broadcast(1, Broadcast(1, minq))                 \* line 668
        q      == CriticForward(critic, b.sw + b.aw)               \* line 673
        split  == Split(q, b.size)                                 \* line 674
        loss   == IF Len(split) < 2 THEN Bad
                  ELSE Broadcast(Broadcast(split[1], target),
                                 Broadcast(split[2], target))      \* line 681
        oa     == ActorForward(actor, b.sw)                        \* line 689
        q1     == IF oa = Bad THEN Bad ELSE CriticQ1(critic, b.sw + oa)
    IN  IF ta = Bad THEN "target_actor_forward"
        ELSE IF na = Bad THEN "next_action"
        ELSE IF tq = Bad THEN "target_critic_forward"
        ELSE IF Len(tsplit) < 2 THEN "target_split_index"
        ELSE IF minq = Bad THEN "min_q"
        ELSE IF q = Bad THEN "critic_forward"
        ELSE IF Len(split) < 2 THEN "split_index"
        ELSE IF loss = Bad THEN "critic_loss"
        ELSE IF ~DelayedUpdateDue(total_it, cfg.policy_freq) THEN "done"
        ELSE IF oa = Bad THEN "actor_forward"
        ELSE IF q1 = Bad THEN "actor_loss"
        ELSE "done"

BeforeCriticStep ==
    {"target_actor_forward", "next_action", "target_critic_forward",
     "target_split_index", "min_q", "critic_forward", "split_index", "critic_loss"}

\* total_it as train leaves it
TrainTotalIt(it) == it

\* the order in which the actor's step would come before the critic's
TrainStepsActorFirst(due) ==
    IF due THEN <<"target_q", "actor_step", "critic_step", "sync">>
    ELSE <<"target_q", "critic_step">>

\* The steps of a train call in the order the statements run: the target
\* value (lines 645-671), the critic's loss and gradient step (673-685) and,
\* when the delayed update is due, the actor's loss and gradient step
\* (688-695) and the three synchronization loops (697-722).
TrainSteps(due) ==
    IF due THEN <<"target_q", "critic_step", "actor_step", "sync">>
    ELSE <<"target_q", "critic_step">>

\* the step a stop belongs to: the call panics inside it, before it has
\* changed a parameter
StepOf(stop) ==
    IF stop \in {"target_actor_forward", "next_action", "target_critic_forward",
                 "target_split_index", "min_q"} THEN "target_q"
    ELSE IF stop \in {"critic_forward", "split_index", "critic_loss"} THEN "critic_step"
    ELSE IF stop \in {"actor_forward", "actor_loss"} THEN "actor_step"
    ELSE "done"

\* the steps a call completes: all of them, or those before the one it panics in
RECURSIVE Completed(_, _)
Completed(steps, stop) ==
    IF steps = <<>> \/ Head(steps) = StepOf(stop) THEN <<>>
    ELSE <<Head(steps)>> \o Completed(Tail(steps), stop)

\* What one step does to the four networks.  q1_seen is the q1 branch of
\* critic that actor_loss is computed through (self.critic.Q1 at line 688).
StepEffect(step, s, g) ==
    IF step = "critic_step"
    THEN [s EXCEPT !.critic = CriticOptimizerStep(s.critic, g)]
    ELSE IF step = "actor_step"
    THEN [s EXCEPT !.q1_seen = s.critic.q1_layers,
                   !.actor = ActorOptimizerStepActor(s.actor, g),
                   !.critic = ActorOptimizerStepCritic(s.critic, g)]
    ELSE IF step = "sync"
    THEN [s EXCEPT !.critic = SyncCritic(s.critic, s.critic_target),
                   !.actor = SyncActor(s.actor, s.actor_target),
                   !.critic_target = SyncCriticTarget(s.critic, s.critic_target),
                   !.actor_target = SyncActorTarget(s.actor, s.actor_target)]
    ELSE s

RECURSIVE RunSteps(_, _, _)
RunSteps(steps, s, g) ==
    IF steps = <<>> THEN s
    ELSE RunSteps(Tail(steps), StepEffect(Head(steps), s, g), g)

Train(b, g) ==
    /\ ~crashed
    /\ calls < MaxCalls
    /\ LET stop  == TrainStop(b)
           due   == DelayedUpdateDue(total_it, cfg.policy_freq)
           steps == Completed(TrainSteps(due), stop)
           s0    == [actor |-> actor, critic |-> critic, actor_target |-> actor_target,
                     critic_target |-> critic_target, q1_seen |-> <<>>]
           s1    == RunSteps(steps, s0, g)
       IN  /\ actor' = s1.actor
           /\ critic' = s1.critic
           /\ actor_target' = s1.actor_target
           /\ critic_target' = s1.critic_target
           /\ IF stop = "done"
              THEN /\ total_it' = TrainTotalIt(total_it)
                   /\ calls' = calls + 1
                   /\ changes' = IF <<actor_target', critic_target'>> # <<actor_target, critic_target>>
                                 THEN changes + 1 ELSE changes
                   /\ UNCHANGED crashed
              ELSE /\ UNCHANGED <<total_it, calls, changes>>
                   /\ crashed' = TRUE
           /\ last' = [op |-> "train", outcome |-> IF stop = "done" THEN "ok" ELSE "panic",
                       at |-> stop, trace |-> steps, q1_seen |-> s1.q1_seen]
    /\ arg' = [kind |-> "batch", batch |-> b, g |-> g]
    /\ ret' = [kind |-> "none"]
    /\ UNCHANGED <<cfg, fs>>

TrainCall ==
    \E size \in 1..MaxBatch, sw \in SampleStateWidths, aw \in SampleActionWidths,
       g \in 1..MaxGrad :
        Train([size |-> size, sw |-> sw, aw |-> aw], g)

\* ------------------------------------------------------------- persistence
\* A persisted map takes keys to JSON values.  A key is <<name, index, field>>:
\* "max_action" is <<"max_action", 0, "">>, format!("layer_{}_tensor_weight_shape", 3)
\* is <<"layer", 3, "tensor_weight_shape">>.  A value is a number, an array of
\* numbers, or a string holding the text of a number or of an array (enc).
Key(name) == <<name, 0, "">>

LayerKey(prefix, idx, field) == <<prefix, idx, field>>

Num(n) == [t |-> "num", enc |-> "", v |-> <<n>>]

Arr(s) == [t |-> "arr", enc |-> "", v |-> s]

Str(x) == [t |-> "str", enc |-> x.t, v |-> x.v]

\* vec![0f64; numel] filled by copy_data(.., numel)
CopyData(t) == [j \in 1..Prod(t.shape) |-> t.data[j]]

\* the keys the loop over a layer vector writes: the two weight keys, and the
\* two bias keys `if layers[idx].bs.is_some()`
LayerKeys(prefix, layers, wshape, wdata) ==
    UNION { {LayerKey(prefix, i - 1, wshape), LayerKey(prefix, i - 1, wdata)}
            \cup (IF layers[i].has_bs
                  THEN {LayerKey(prefix, i - 1, "tensor_bias_shape"),
                        LayerKey(prefix, i - 1, "tensor_bias_data")}
                  ELSE {}) : i \in 1..Len(layers) }

\* the value written under a layer key
LayerValue(layers, k, wshape, wdata) ==
    LET l == layers[k[2] + 1]
    IN  IF k[3] = wshape THEN Arr(l.ws.shape)
        ELSE IF k[3] = wdata THEN Arr(CopyData(l.ws))
        ELSE IF k[3] = "tensor_bias_shape" THEN Arr(l.bs.shape)
        ELSE Arr(CopyData(l.bs))

\* impl Serialize for Actor
SerializeActor(a) ==
    [k \in {Key("max_action"), Key("num_layers")}
           \cup LayerKeys("layer", a.layers, "tensor_weight_shape", "tensor_weight_data") |->
        IF k = Key("max_action") THEN Num(a.max_action)
        ELSE IF k = Key("num_layers") THEN Num(Len(a.layers))
        ELSE LayerValue(a.layers, k, "tensor_weight_shape", "tensor_weight_data")]

\* the Critic serializer with the names of the two weight fields as parameters
SerializeCriticAs(c, wshape, wdata) ==
    [k \in {Key("num_q1_layers"), Key("num_q2_layers")}
           \cup LayerKeys("q1_layer", c.q1_layers, wshape, wdata)
           \cup LayerKeys("q2_layer", c.q2_layers, wshape, wdata) |->
        IF k = Key("num_q1_layers") THEN Num(Len(c.q1_layers))
        ELSE IF k = Key("num_q2_layers") THEN Num(Len(c.q2_layers))
        ELSE IF k[1] = "q1_layer" THEN LayerValue(c.q1_layers, k, wshape, wdata)
        ELSE LayerValue(c.q2_layers, k, wshape, wdata)]

\* impl Serialize for Critic: format!("{}_tensor_shape"), format!("{}_tensor_data")
SerializeCritic(c) == SerializeCriticAs(c, "tensor_shape", "tensor_data")

\* serde_json::to_string(&network): the text of a JSON map
ToJsonText(doc) == [form |-> "map", doc |-> doc]

\* that text held as the String value of the container save builds
AsJsonString(doc) == [form |-> "string", doc |-> doc]

\* one 32-bit half of the 8 bytes of the f64 d, read as an f32: the halves of
\* 0.0 are 0.0, the halves of anything else are other numbers (1000 and up here)
F32Word(d, half) == IF d = 0 THEN 0 ELSE 1000 + 2 * d + half

\* slice::from_raw_parts(data.as_ptr() as *const u8, data.len() * size_of::<f64>())
\* handed to Tensor::f_from_data_size(.., shape, Kind::Float): Prod(shape)
\* elements of F32Bytes bytes each are read from the buffer, whatever its
\* length.  Reading past the buffer is undefined: ub < 0 is a crash, any other
\* ub is the value the stray reads see.
FromDataSize(data, shape, ub) ==
    LET n     == Prod(shape)
        avail == (Len(data) * F64Bytes) \div F32Bytes
    IN  [ok |-> n <= avail \/ ub >= 0,
         t  |-> [shape |-> shape,
                 data  |-> [j \in 1..n |->
                              IF j <= avail
                              THEN F32Word(data[((j - 1) \div 2) + 1], (j - 1) % 2)
                              ELSE ub]]]

\* the text under key k parsed as the JSON kind `enc`: "" if it is there and
\* parses, else the message of the expect that panics
Expect(doc, k, enc, what) ==
    IF k \notin DOMAIN doc THEN what \o " not found"
    ELSE IF doc[k].enc # enc THEN "Failed to parse " \o what
    ELSE ""

\* the body of `for x in 0..num_layers` for layer x of the vector `prefix`
ReadLayer(doc, prefix, x, ub) ==
    LET ksh  == LayerKey(prefix, x, "tensor_weight_shape")
        kda  == LayerKey(prefix, x, "tensor_weight_data")
        kbsh == LayerKey(prefix, x, "tensor_bias_shape")
        kbda == LayerKey(prefix, x, "tensor_bias_data")
        e1   == Expect(doc, ksh, "arr", "tensor_weight_shape")
        e2   == Expect(doc, kda, "arr", "tensor_weight_data")
        w    == FromDataSize(doc[kda].v, doc[ksh].v, ub)
        hasb == kbda \in DOMAIN doc                       \* map.contains_key(..bias_data)
        e3   == Expect(doc, kbsh, "arr", "tensor_bias_shape")
        e4   == Expect(doc, kbda, "arr", "tensor_bias_data")
        b    == FromDataSize(doc[kbda].v, doc[kbsh].v, ub)
        none == [ws |-> NoTensor, bs |-> NoTensor, has_bs |-> FALSE]
    IN  IF e1 # "" THEN [at |-> e1, layer |-> none]
        ELSE IF e2 # "" THEN [at |-> e2, layer |-> none]
        ELSE IF ~w.ok THEN [at |-> "read past the data buffer", layer |-> none]
        ELSE IF ~hasb THEN [at |-> "", layer |-> [ws |-> w.t, bs |-> NoTensor, has_bs |-> FALSE]]
        ELSE IF e3 # "" THEN [at |-> e3, layer |-> none]
        ELSE IF e4 # "" THEN [at |-> e4, layer |-> none]
        ELSE IF ~b.ok THEN [at |-> "read past the data buffer", layer |-> none]
        ELSE [at |-> "", layer |-> [ws |-> w.t, bs |-> b.t, has_bs |-> TRUE]]

\* the whole loop: it stops at the first layer that panics
ReadLayers(doc, prefix, n, ub) ==
    LET rs  == [x \in 1..n |-> ReadLayer(doc, prefix, x - 1, ub)]
        bad == {x \in 1..n : rs[x].at # ""}
    IN  IF bad = {} THEN [at |-> "", layers |-> [x \in 1..n |-> rs[x].layer]]
        ELSE [at |-> rs[CHOOSE x \in bad : \A y \in bad : x <= y].at, layers |-> <<>>]

\* serde_json::from_str::<HashMap<String, String>>(s): every value must be a string
ParsesAsStringMap(doc) == \A k \in DOMAIN doc : doc[k].t = "str"

Failed(outcome, at) == [outcome |-> outcome, at |-> at, net |-> [kind |-> "none"]]

\* impl Deserialize for Actor, on the JSON document inp
DeserializeActor(inp, ub) ==
    LET doc == inp.doc
        e1  == Expect(doc, Key("max_action"), "num", "max_action")
        e2  == Expect(doc, Key("num_layers"), "num", "num_layers")
        ls  == ReadLayers(doc, "layer", doc[Key("num_layers")].v[1], ub)
    IN  IF inp.form # "string" THEN Failed("err", "expected a borrowed string")
        ELSE IF ~ParsesAsStringMap(doc) THEN Failed("panic", "Failed to parse hashmap")
        ELSE IF e1 # "" THEN Failed("panic", e1)
        ELSE IF e2 # "" THEN Failed("panic", e2)
        ELSE IF ls.at # "" THEN Failed("panic", ls.at)
        ELSE [outcome |-> "ok", at |-> "done",
              net |-> [kind |-> "actor", layers |-> ls.layers,
                       max_action |-> doc[Key("max_action")].v[1]]]

\* impl Deserialize for Critic, on the JSON document inp
DeserializeCritic(inp, ub) ==
    LET doc == inp.doc
        e1  == Expect(doc, Key("num_q1_layers"), "num", "num_q1_layers")
        e2  == Expect(doc, Key("num_q2_layers"), "num", "num_q2_layers")
        l1  == ReadLayers(doc, "q1_layer", doc[Key("num_q1_layers")].v[1], ub)
        l2  == ReadLayers(doc, "q2_layer", doc[Key("num_q2_layers")].v[1], ub)
    IN  IF inp.form # "string" THEN Failed("err", "expected a borrowed string")
        ELSE IF ~ParsesAsStringMap(doc) THEN Failed("panic", "Failed to parse hashmap")
        ELSE IF e1 # "" THEN Failed("panic", e1)
        ELSE IF e2 # "" THEN Failed("panic", e2)
        ELSE IF l1.at # "" THEN Failed("panic", l1.at)
        ELSE IF l2.at # "" THEN Failed("panic", l2.at)
        ELSE [outcome |-> "ok", at |-> "done",
              net |-> [kind |-> "critic", q1_layers |-> l1.layers, q2_layers |-> l2.layers]]

\* --------------------------------------------------- persisted inputs drawn
\* every value of the map held as the string of its JSON text: the form the
\* deserializers parse
StringEncode(doc) == [k \in DOMAIN doc |-> Str(doc[k])]

Remove(doc, k) == [j \in DOMAIN doc \ {k} |-> doc[j]]

Resize(doc, k, n) == [doc EXCEPT ![k].v = [j \in 1..n |-> 1]]

DataKeys(doc) == {k \in DOMAIN doc : k[3] \in {"tensor_weight_data", "tensor_bias_data"}}

\* the documents a deserializer is run on, built from the map `doc` a
\* serializer wrote: the saved section, the bare text, the string-encoded map,
\* and the string-encoded map with one key removed or one data array resized
Inputs(doc) ==
    LET enc == StringEncode(doc)
    IN  {AsJsonString(doc), ToJsonText(doc), AsJsonString(enc)}
        \cup {AsJsonString(Remove(enc, k)) : k \in DOMAIN enc}
        \cup UNION { {AsJsonString(Resize(enc, k, n)) :
                         n \in {0, Len(doc[k].v) - 1, Len(doc[k].v) + 1}} :
                     k \in DataKeys(enc) }

UBOutcomes == {0 - 1, 7}

Deserialize(kind, inp, ub) ==
    /\ ~crashed
    /\ LET r == IF kind = "actor" THEN DeserializeActor(inp, ub)
                ELSE DeserializeCritic(inp, ub)
       IN  /\ last' = [op |-> "deserialize_" \o kind, outcome |-> r.outcome,
                       at |-> r.at, trace |-> <<>>]
           /\ ret' = r.net
           /\ crashed' = (r.outcome = "panic")
    /\ arg' = [kind |-> kind, inp |-> inp]
    /\ UNCHANGED <<cfg, agent, fs, calls, changes>>

DeserializeActorCall ==
    \E inp \in Inputs(SerializeActor(actor)), ub \in UBOutcomes :
        Deserialize("actor", inp, ub)

\* the critic's documents are built both from what its serializer writes and
\* from the same map under the key names its deserializer reads
DeserializeCriticCall ==
    \E inp \in Inputs(SerializeCritic(critic))
               \cup Inputs(SerializeCriticAs(critic, "tensor_weight_shape", "tensor_weight_data")),
       ub \in UBOutcomes :
        Deserialize("critic", inp, ub)

\* -------------------------------------------------------------------- save
\* File::open(filename): opens an existing file read-only, creates nothing
FileOpen(f) ==
    IF f.exists THEN [ok |-> TRUE, mode |-> "read"] ELSE [ok |-> FALSE, mode |-> "none"]

\* file.write_all(bytes): a handle that was not opened for writing rejects it
WriteAll(handle) == handle.mode = "write"

\* the HashMap save builds: "actor" and "critic", each the text of its map
Container == [kind   |-> "td3",
              actor  |-> AsJsonString(SerializeActor(actor)),
              critic |-> AsJsonString(SerializeCritic(critic))]

Save ==
    /\ ~crashed
    /\ LET file == FileOpen(fs)
       IN  IF ~file.ok
           THEN /\ last' = [op |-> "save", outcome |-> "err", at |-> "open", trace |-> <<>>]
                /\ UNCHANGED fs
           ELSE IF ~WriteAll(file)
           THEN /\ last' = [op |-> "save", outcome |-> "err", at |-> "write", trace |-> <<>>]
                /\ UNCHANGED fs
           ELSE /\ last' = [op |-> "save", outcome |-> "ok", at |-> "done", trace |-> <<>>]
                /\ fs' = [fs EXCEPT !.content = Container]
    /\ arg' = [kind |-> "filename"]
    /\ ret' = [kind |-> "none"]
    /\ UNCHANGED <<cfg, agent, crashed, calls, changes>>

\* ---------------------------------------------------------------- TD3::new
\* TD3::new: the four networks from the shape lists, total_it: 0.  Every
\* parameter of the online networks starts at vo, of the target networks at vt.
New(sd, ad, ash, q1s, q2s, pf, vo, vt) ==
    /\ cfg = [state_dim |-> sd, action_dim |-> ad, actor_shape |-> ash,
              q1_shape |-> q1s, q2_shape |-> q2s, policy_freq |-> pf,
              max_action |-> 1]
    /\ actor = ActorNew(sd, ad, ash, 1, vo)
    /\ actor_target = ActorNew(sd, ad, ash, 1, vt)
    /\ critic = CriticNew(sd, ad, q1s, q2s, vo)
    /\ critic_target = CriticNew(sd, ad, q1s, q2s, vt)
    /\ total_it = InitialTotalIt
    /\ fs \in {[exists |-> FALSE, content |-> [kind |-> "none"]],
               [exists |-> TRUE, content |-> [kind |-> "old"]]}
    /\ crashed = FALSE
    /\ last = [op |-> "new", outcome |-> "ok", at |-> "done", trace |-> <<>>]
    /\ arg = [kind |-> "none"]
    /\ ret = [kind |-> "none"]
    /\ calls = 0
    /\ changes = 0

\* training: any configuration, then train and save calls
Init ==
    \E sd \in StateDims, ad \in ActionDims, ash \in ActorShapes,
       q1s \in QShapes, q2s \in QShapes, pf \in 1..MaxFreq,
       vo \in 0..MaxInit, vt \in 0..MaxInit :
        New(sd, ad, ash, q1s, q2s, pf, vo, vt)

Next ==
    \/ TrainCall
    \/ Save

Spec == Init /\ [][Next]_vars

\* persistence: a freshly constructed agent, then save and the deserializers
PersistInit ==
    \E sd \in {3}, ad \in {1}, ash \in ActorShapes, q1s \in {<<3>>, <<3, 3>>}, q2s \in {<<3>>},
       vo \in 0..MaxInit :
        New(sd, ad, ash, q1s, q2s, DefaultPolicyFreq, vo, 0)

PersistNext ==
    \/ Save
    \/ DeserializeActorCall
    \/ DeserializeCriticCall

PersistSpec == PersistInit /\ [][PersistNext]_vars

\* ================================================================== claims
targets == <<actor_target, critic_target>>

TrainReturned == last.op = "train" /\ last.outcome = "ok"

\* C1: after n train calls from construction total_it is n: every train call
\* that returns has increased total_it by exactly one.
C1_TotalItCountsCalls == total_it = InitialTotalIt + calls

\* C3: from a fresh agent with the default policy_freq, ten train calls end
\* with total_it = 10 and have changed the target parameters on exactly five
\* of the calls.
C3_TenCalls ==
    (cfg.policy_freq = DefaultPolicyFreq /\ calls = 10)
        => (total_it = 10 /\ changes = 5)

\* every element of the target tensor t1 is
\* tau * online + (1 - tau) * old target, with tau = TauNum / TauDen
SoftUpdated(t1, online, t0) ==
    /\ t1.shape = t0.shape
    /\ \A j \in 1..Len(t0.data) :
        TauDen * t1.data[j] = TauNum * online.data[j] + (TauDen - TauNum) * t0.data[j]

SoftUpdatedLayers(l1, online, l0) ==
    /\ Len(l1) = Len(l0)
    /\ \A i \in 1..Len(l0) :
        /\ SoftUpdated(l1[i].ws, online[i].ws, l0[i].ws)
        /\ SoftUpdated(l1[i].bs, online[i].bs, l0[i].bs)

\* C4: a train call that performs the synchronization step assigns every
\* weight and bias of every target layer tau * online + (1 - tau) * target,
\* online being the parameters the optimizer steps of the call left, and
\* leaves the online parameters as those steps left them.
C4_SoftUpdate ==
    [][ (last'.op = "train" /\ last'.trace # <<>> /\ last'.trace[Len(last'.trace)] = "sync")
        => LET a == ActorOptimizerStepActor(actor, arg'.g)
               c == ActorOptimizerStepCritic(CriticOptimizerStep(critic, arg'.g), arg'.g)
           IN  /\ SoftUpdatedLayers(actor_target'.layers, a.layers, actor_target.layers)
               /\ SoftUpdatedLayers(critic_target'.q1_layers, c.q1_layers, critic_target.q1_layers)
               /\ SoftUpdatedLayers(critic_target'.q2_layers, c.q2_layers, critic_target.q2_layers)
               /\ actor' = a
               /\ critic' = c ]_vars

\* the same number of layers, and per layer the same weight and bias tensors
SameLayers(got, want) ==
    /\ Len(got) = Len(want)
    /\ \A i \in 1..Len(want) :
        /\ got[i].ws = want[i].ws
        /\ got[i].has_bs = want[i].has_bs
        /\ got[i].has_bs => got[i].bs = want[i].bs

\* C5: for a fresh agent, deserializing the actor section and the critic
\* section that save builds succeeds and gives back the layers of actor, of
\* critic.q1 and of critic.q2: same count, same shapes, same values.
C5_RoundTrip ==
    /\ (last.op = "deserialize_actor" /\ arg.inp = Container.actor)
        => /\ last.outcome = "ok"
           /\ SameLayers(ret.layers, actor.layers)
    /\ (last.op = "deserialize_critic" /\ arg.inp = Container.critic)
        => /\ last.outcome = "ok"
           /\ SameLayers(ret.q1_layers, critic.q1_layers)
           /\ SameLayers(ret.q2_layers, critic.q2_layers)

\* the layers are the linear layers of the chain of widths
IsChain(layers, chain) ==
    /\ Len(layers) = Len(chain) - 1
    /\ \A i \in 1..Len(layers) : layers[i].ws.shape = <<chain[i + 1], chain[i]>>

\* C6: the actor's layers chain state_dim, the hidden widths, action_dim; each
\* critic branch chains state_dim + action_dim, the hidden widths, 1; so the
\* actor maps width state_dim to width action_dim and the critic maps width
\* state_dim + action_dim to width 2.
C6_LayerChains ==
    /\ IsChain(actor.layers, <<cfg.state_dim>> \o cfg.actor_shape \o <<cfg.action_dim>>)
    /\ IsChain(critic.q1_layers,
               <<cfg.state_dim + cfg.action_dim>> \o cfg.q1_shape \o <<1>>)
    /\ IsChain(critic.q2_layers,
               <<cfg.state_dim + cfg.action_dim>> \o cfg.q2_shape \o <<1>>)
    /\ ActorForward(actor, cfg.state_dim) = cfg.action_dim
    /\ CriticForward(critic, cfg.state_dim + cfg.action_dim) = 2

Deserialized == last.op \in {"deserialize_actor", "deserialize_critic"}

\* a map of strings, handed over as a string: what the deserializers parse
StringMap(inp) == inp.form = "string" /\ ParsesAsStringMap(inp.doc)

\* some shape key of the map has its data key beside it, and the product of
\* the shape differs from the number of data values
PairMismatch(doc) ==
    \E k \in DOMAIN doc :
        \E p \in {<<"tensor_weight_shape", "tensor_weight_data">>,
                  <<"tensor_bias_shape", "tensor_bias_data">>} :
            /\ k[3] = p[1]
            /\ <<k[1], k[2], p[2]>> \in DOMAIN doc
            /\ Prod(doc[k].v) # Len(doc[<<k[1], k[2], p[2]>>].v)

\* C7: deserializing a persisted network in which a layer's shape and data
\* disagree in element count fails and produces no network.
C7_MismatchRejected ==
    (Deserialized /\ StringMap(arg.inp) /\ PairMismatch(arg.inp.doc))
        => (last.outcome # "ok" /\ ret.kind = "none")

\* the keys of layer x of the vector `prefix` that are missing: a weight key,
\* or one key of the bias pair while the other is there
LayerKeyMissing(doc, prefix, x) ==
    \/ LayerKey(prefix, x, "tensor_weight_shape") \notin DOMAIN doc
    \/ LayerKey(prefix, x, "tensor_weight_data") \notin DOMAIN doc
    \/ (LayerKey(prefix, x, "tensor_bias_shape") \in DOMAIN doc)
         # (LayerKey(prefix, x, "tensor_bias_data") \in DOMAIN doc)

\* the count key is missing, or a key of a layer below the declared count is
CountedKeyMissing(doc, count, prefix) ==
    \/ Key(count) \notin DOMAIN doc
    \/ \E x \in 0..(doc[Key(count)].v[1] - 1) : LayerKeyMissing(doc, prefix, x)

\* C8: deserializing a persisted network fails and produces no network when
\* an expected key is absent: max_action, a layer count, a weight shape or
\* weight data key of a layer below the declared count, or one key of a bias
\* shape/data pair whose other key is present.
C8_MissingKeyRejected ==
    /\ (last.op = "deserialize_actor" /\ StringMap(arg.inp)
        /\ (\/ Key("max_action") \notin DOMAIN arg.inp.doc
            \/ CountedKeyMissing(arg.inp.doc, "num_layers", "layer")))
        => (last.outcome # "ok" /\ ret.kind = "none")
    /\ (last.op = "deserialize_critic" /\ StringMap(arg.inp)
        /\ (\/ CountedKeyMissing(arg.inp.doc, "num_q1_layers", "q1_layer")
            \/ CountedKeyMissing(arg.inp.doc, "num_q2_layers", "q2_layer")))
        => (last.outcome # "ok" /\ ret.kind = "none")

\* C9: persistence keeps which layers have a bias: for every layer of the
\* actor the serializer writes both bias keys if the layer has a bias and
\* neither if it has none, and the deserializer, given what was written,
\* rebuilds the layer with a bias tensor exactly if it had one.
C9_BiasPresenceKept ==
    (last.op = "deserialize_actor" /\ arg.inp = Container.actor)
        => /\ \A i \in 1..Len(actor.layers) :
                /\ (LayerKey("layer", i - 1, "tensor_bias_shape") \in DOMAIN arg.inp.doc)
                     = actor.layers[i].has_bs
                /\ (LayerKey("layer", i - 1, "tensor_bias_data") \in DOMAIN arg.inp.doc)
                     = actor.layers[i].has_bs
           /\ ret.kind = "actor"
           /\ Len(ret.layers) = Len(actor.layers)
           /\ \A i \in 1..Len(actor.layers) : ret.layers[i].has_bs = actor.layers[i].has_bs

\* C10: the destination can be opened or created for writing, so save
\* returns success and leaves the serialized container in the destination.
C10_SaveWrites ==
    (last.op = "save") => (last.outcome = "ok" /\ fs.content.kind = "td3" /\ fs.content = Container)

\* the steps a train call ran include step
Ran(l, step) == \E k \in 1..Len(l.trace) : l.trace[k] = step

\* C11: a train call that returns performs the actor gradient step if and
\* only if its total_it is divisible by policy_freq, and performs the critic
\* step always; so with policy_freq >= 2 no two consecutive train calls both
\* update the actor, and with policy_freq = 2 exactly one of any two
\* consecutive calls does.
C11_DelayedActorUpdate ==
    [][ (last'.op = "train" /\ last'.outcome = "ok")
        => /\ Ran(last', "critic_step")
           /\ Ran(last', "actor_step") <=> DelayedUpdateDue(total_it', cfg.policy_freq)
           /\ (TrainReturned /\ cfg.policy_freq >= 2)
                => ~(Ran(last, "actor_step") /\ Ran(last', "actor_step"))
           /\ (TrainReturned /\ cfg.policy_freq = 2)
                => (Ran(last, "actor_step") \/ Ran(last', "actor_step")) ]_vars

\* the bias tensors of a layer sequence
Biases(layers) == [i \in 1..Len(layers) |-> layers[i].bs]

\* C12: the critic optimizer holds exactly the parameters of critic, the
\* actor optimizer exactly those of actor, neither holds a target parameter;
\* in a train call that runs both steps the critic step changes critic only
\* and the actor step changes actor only: the call leaves critic (its q1
\* branch included) as the critic step alone left it, and the targets as they
\* were.
C12_OptimizerFrames ==
    [][ (last'.op = "train" /\ Ran(last', "actor_step"))
        => LET c1 == CriticOptimizerStep(critic, arg'.g)
               a1 == ActorOptimizerStepActor(actor, arg'.g)
           IN  /\ CriticOptimizerParams = {"critic"}
               /\ ActorOptimizerParams = {"actor"}
               /\ Biases(critic'.q1_layers) = Biases(c1.q1_layers)
               /\ Biases(critic'.q2_layers) = Biases(c1.q2_layers)
               /\ Biases(actor'.layers) = Biases(a1.layers)
               /\ targets' = targets ]_vars

\* the number of columns of critic_target's output on the batch b of a train
\* call, Bad when the call never gets that far
TargetQWidth(b) ==
    LET ta == ActorForward(actor_target, b.sw)
        na == Broadcast(ta, b.aw)
    IN  IF na = Bad THEN Bad ELSE CriticForward(critic_target, b.sw + na)

\* C13: in a train call, whatever the batch size, splitting critic_target's
\* two-column output yields its first and its second column, one value per
\* transition each, taking the two never fails, and min_q has their
\* elementwise shape.
C13_TargetColumns ==
    (last.op = "train" /\ TargetQWidth(arg.batch) = 2)
        => LET split_q == Split(2, arg.batch.size)
           IN  /\ last.at # "target_split_index"
               /\ split_q = <<1, 1>>
               /\ Broadcast(split_q[1], split_q[2]) = 1

\* every layer of a sequence of n applied once, in index order, the rectifier
\* after each but the last and out after the last
EachLayerOnce(n, out) ==
    [i \in 1..n |-> [layer |-> i, then |-> IF i < n THEN "relu" ELSE out]]

\* C14: a forward pass of the actor, of Critic::Q1 and of each branch of
\* Critic::forward over one or more layers applies every layer exactly once
\* in index order, the rectifier after each but the last, tanh scaled by
\* max_action after the actor's last layer and nothing after the critic's.
C14_ForwardAppliesEachLayerOnce ==
    /\ \A a \in {actor, actor_target} :
        Len(a.layers) >= 1
            => ForwardSteps(Len(a.layers), "tanh_max_action")
                    = EachLayerOnce(Len(a.layers), "tanh_max_action")
    /\ \A c \in {critic, critic_target} : \A branch \in {c.q1_layers, c.q2_layers} :
        Len(branch) >= 1
            => ForwardSteps(Len(branch), "none") = EachLayerOnce(Len(branch), "none")

\* s is an initial segment of t
IsPrefix(s, t) == Len(s) <= Len(t) /\ s = SubSeq(t, 1, Len(s))

\* C15: the steps of one train call run in the order target value, critic
\* gradient step, actor loss and gradient step, synchronization: the steps a
\* call has run are an initial segment of that order, a call that stops
\* before the critic step has changed no parameter, and the actor loss is
\* computed through the q1 branch as the critic step of this same call left
\* it, so the actor update never precedes the critic update.
C15_StepOrder ==
    [][ (last'.op = "train")
        => /\ IsPrefix(last'.trace, <<"target_q", "critic_step", "actor_step", "sync">>)
           /\ (last'.at \in BeforeCriticStep)
                => (~Ran(last', "critic_step") /\ agent' = agent)
           /\ Ran(last', "actor_step")
                => last'.q1_seen = CriticOptimizerStep(critic, arg'.g).q1_layers
           /\ Ran(last', "sync") => Ran(last', "actor_step") ]_vars

\* a second train call has returned after computing the target value, the
\* critic step, the actor step through a q1 branch of at least one layer, and
\* the synchronization
C15_Witness ==
    /\ TrainReturned
    /\ calls >= 2
    /\ last.trace = <<"target_q", "critic_step", "actor_step", "sync">>
    /\ last.q1_seen # <<>>
====
